---- MODULE Spec2Model ----
(***************************************************************************)
(* Smart Garden App (src/app.py): the JSON record store (DataManager), the *)
(* weather lookup (WeatherService), the watering rule (PlantService) and   *)
(* the Streamlit pages that wire them together.                            *)
(*                                                                         *)
(* Time is a count of clock ticks.  TicksPerSec ticks make one second (the *)
(* granularity of int(datetime.now().timestamp())) and TicksPerDay ticks   *)
(* one day (the granularity of timedelta.days).  The two scales are        *)
(* independent: ids are only ever compared with ids, days with intervals.  *)
(***************************************************************************)
EXTENDS Integers, Sequences, FiniteSets, TLC

----------------------------------------------------------------------------
\* Bounds of the model.
TicksPerSec == 2
TicksPerDay == 2
MaxInterval == 3
MaxDescLen == 4
MaxTime == 4
MaxPlants == 2
MaxAppends == 150
MaxFaultLen == 2

\* The latest clock reading of the watering-rule specification: late enough
\* for a plant watered at time 0 to be overdue at the largest interval.
MaxNow == MaxInterval * TicksPerDay + 1

VARIABLES
    now,          \* datetime.now(), in ticks
    plants_db,    \* the file plants_db.json
    chat_db,      \* the file chat_history.json
    profile_db,   \* the file user_profile.json
    ret,          \* the last DataManager call and what it returned or raised
    appended,     \* how many chat messages have been appended so far
    rule,         \* the last calculate_watering_schedule call: arguments, result
    weather_key,  \* whether OPENWEATHER_API_KEY is configured
    session,      \* st.session_state (the cached plant list)
    page,         \* the page the sidebar radio selects
    dash          \* what the last Dashboard render fetched and showed

vars == <<now, plants_db, chat_db, profile_db, ret, appended, rule,
          weather_key, session, page, dash>>

----------------------------------------------------------------------------
\* Strings are sequences of characters.

Alphabet == {"r", "R", "a", "i", "n"}

RECURSIVE StringsOfLen(_)
StringsOfLen(n) ==
    IF n = 0 THEN {<<>>}
    ELSE {Append(s, c) : s \in StringsOfLen(n - 1), c \in Alphabet}

Strings == UNION {StringsOfLen(n) : n \in 0..MaxDescLen}

\* str.lower(), character by character.
LowerChar(c) ==
    CASE c = "R" -> "r"
      [] c = "A" -> "a"
      [] c = "I" -> "i"
      [] c = "N" -> "n"
      [] c = "K" -> "k"
      [] OTHER -> c

Lower(s) == [i \in 1..Len(s) |-> LowerChar(s[i])]

\* Python's `sub in s` on strings.
Contains(sub, s) ==
    \E i \in 0..(Len(s) - Len(sub)) : SubSeq(s, i + 1, i + Len(sub)) = sub

Rain == <<"r", "a", "i", "n">>

----------------------------------------------------------------------------
\* Timestamps.  A JSON value of the last_watered field is null or a string;
\* the string datetime.isoformat() writes has a date part and a time-of-day
\* part.

None == [isNull |-> TRUE, text |-> <<>>]
Str(text) == [isNull |-> FALSE, text |-> text]

isoformat(t) == Str(<<t \div TicksPerDay, t % TicksPerDay>>)

\* datetime.fromisoformat: the parsed time, or ValueError for a string that
\* is not a date and a time of day.  A third part is a UTC offset: the parsed
\* datetime is then timezone-aware.
fromisoformat(text) ==
    IF Len(text) \in {2, 3} /\ text[1] >= 0 /\ text[2] \in 0..(TicksPerDay - 1)
    THEN [ok |-> TRUE, aware |-> Len(text) = 3,
          t |-> text[1] * TicksPerDay + text[2]]
    ELSE [ok |-> FALSE, aware |-> FALSE, t |-> 0]

\* datetime.now() - last_date: TypeError when last_date is timezone-aware
\* (now() is naive).
CanSubtract(last_date) == ~last_date.aware

\* timedelta.days: whole days, rounded towards minus infinity.
days(delta) == delta \div TicksPerDay

\* int(interval): ValueError for a value that is not a number.
Interval(n) == [numeric |-> TRUE, value |-> n]
NotANumber == [numeric |-> FALSE, value |-> 0]

----------------------------------------------------------------------------
\* Weather readings: None, or a dict with some keys.

NoWeather == [isNone |-> TRUE, keys |-> {}, description |-> <<>>]
Reading(keys, d) == [isNone |-> FALSE, keys |-> keys, description |-> d]

\* Python truthiness of a reading: None and the empty dict are falsy.
Truthy(weather) == ~weather.isNone /\ weather.keys # {}

\* weather.get('description', '')
GetDescription(weather) ==
    IF "description" \in weather.keys THEN weather.description ELSE <<>>

\* The interval rule with > for >= (a plant due today is not yet due).
interval_rule_strict(interval, last_watered) ==
    IF last_watered.isNull \/ last_watered.text = <<>>
    THEN TRUE
    ELSE LET last_date == fromisoformat(last_watered.text)
         IN  IF ~last_date.ok \/ ~CanSubtract(last_date) \/ ~interval.numeric
             THEN TRUE
             ELSE days(now - last_date.t) > interval.value

\* The interval rule without the `not last_watered` branch: a plant that was
\* never watered keeps the initial needs_water = False.
interval_rule_no_none(interval, last_watered) ==
    IF last_watered.isNull \/ last_watered.text = <<>>
    THEN FALSE
    ELSE LET last_date == fromisoformat(last_watered.text)
         IN  IF ~last_date.ok \/ ~CanSubtract(last_date) \/ ~interval.numeric
             THEN TRUE
             ELSE days(now - last_date.t) >= interval.value

\* PlantService.calculate_watering_schedule, lines 161-172: the interval rule.
interval_rule(interval, last_watered) ==
    IF last_watered.isNull \/ last_watered.text = <<>>
    THEN TRUE
    ELSE LET last_date == fromisoformat(last_watered.text)
         IN  IF ~last_date.ok \/ ~CanSubtract(last_date) \/ ~interval.numeric
             THEN TRUE                               \* except: needs_water = True
             ELSE days(now - last_date.t) >= interval.value

\* The weather override without .lower(): a case-sensitive search.
rain_override_case_sensitive(weather) ==
    Truthy(weather) /\ Contains(Rain, GetDescription(weather))

\* PlantService.calculate_watering_schedule, line 174: the weather override.
rain_override(weather) ==
    Truthy(weather) /\ Contains(Rain, Lower(GetDescription(weather)))

calculate_watering_schedule(name, interval, last_watered, weather, forecast) ==
    [needs_water |->
        IF rain_override(weather) THEN FALSE
        ELSE interval_rule(interval, last_watered)]

----------------------------------------------------------------------------
\* The watering rule on its own: the arguments are drawn at Init, the call
\* is the only step.

Intervals == {Interval(n) : n \in 0..MaxInterval} \cup {NotANumber}

MalformedTimestamps == {Str(<<0>>), Str(<<0, TicksPerDay>>)}

\* Well-formed strings that carry a UTC offset.
AwareTimestamps == {Str(Append(isoformat(t).text, 0)) : t \in {0, MaxNow}}

LastWateredValues ==
    {None, Str(<<>>)} \cup MalformedTimestamps \cup AwareTimestamps
        \cup {isoformat(t) : t \in 0..MaxNow}

FullKeys == {"temperature", "description", "humidity", "icon"}

WeatherValues ==
    {NoWeather, Reading({}, <<>>), Reading({"temperature"}, <<>>)}
        \cup {Reading(FullKeys, d) : d \in Strings}


----------------------------------------------------------------------------
\* Files.  A file is missing, holds a JSON document (data), or holds text
\* json.load cannot parse.  json.dump followed by json.load gives back the
\* dumped lists, dicts, strings, integers and nulls unchanged, so a well-formed
\* file is modelled by the value it holds.

NoFile == [exists |-> FALSE, valid |-> FALSE, data |-> <<>>]
File(data) == [exists |-> TRUE, valid |-> TRUE, data |-> data]
Garbage == [exists |-> TRUE, valid |-> FALSE, data |-> <<>>]

\* What a call gives back: a value, or an exception.
Returned(v) == [raised |-> FALSE, value |-> v]
Raised == [raised |-> TRUE, value |-> <<>>]

DEFAULT_CITY == "Sialkot"
DefaultProfile == [name |-> "", email |-> "", location |-> DEFAULT_CITY]

\* The cap add_chat_message passes to get_chat_history.
HistoryCap == 100

\* DataManager.get_all_plants
get_all_plants(db) ==
    IF ~db.exists THEN <<>>
    ELSE IF ~db.valid THEN <<>>        \* except: return []
    ELSE db.data

\* int(datetime.now().timestamp())
new_id == now \div TicksPerSec

\* DataManager.add_plant: the stored record (plant_data with its id set).
with_id(plant_data, id) ==
    [name |-> plant_data.name,
     placement |-> plant_data.placement,
     sun_preference |-> plant_data.sun_preference,
     watering_interval_days |-> plant_data.watering_interval_days,
     last_watered |-> plant_data.last_watered,
     id |-> id]

add_plant(db, plant_data) ==
    File(Append(get_all_plants(db), with_id(plant_data, new_id)))

\* DataManager.delete_plant
delete_plant(db, plant_id) ==
    LET keep(p) == p.id # plant_id
    IN  File(SelectSeq(get_all_plants(db), keep))

\* mark_watered writing the whole-second reading (the value add_plant uses
\* as an id) where the tick reading belongs.
mark_watered_seconds(db, plant_id) ==
    LET plants == get_all_plants(db)
    IN  File([i \in 1..Len(plants) |->
                IF plants[i].id = plant_id
                THEN [plants[i] EXCEPT !.last_watered = isoformat(new_id)]
                ELSE plants[i]])

\* DataManager.mark_watered
mark_watered(db, plant_id) ==
    LET plants == get_all_plants(db)
    IN  File([i \in 1..Len(plants) |->
                IF plants[i].id = plant_id
                THEN [plants[i] EXCEPT !.last_watered = isoformat(now)]
                ELSE plants[i]])

\* DataManager.get_user_profile: no try around json.load.
get_user_profile(db) ==
    IF db.exists
    THEN IF db.valid THEN Returned(db.data) ELSE Raised
    ELSE Returned(<<DefaultProfile>>)

\* DataManager.save_user_profile
save_user_profile(data) == File(<<data>>)

\* Python's hist[-limit:].
tail_slice(hist, limit) ==
    LET n == Len(hist)
        start == IF limit > 0
                 THEN (IF limit >= n THEN 0 ELSE n - limit)
                 ELSE (IF -limit >= n THEN n ELSE -limit)
    IN  SubSeq(hist, start + 1, n)

\* DataManager.get_chat_history: no try around json.load.
get_chat_history(db, limit) ==
    IF ~db.exists THEN Returned(<<>>)
    ELSE IF ~db.valid THEN Raised
    ELSE Returned(tail_slice(db.data, limit))

ChatEntry(user_msg, bot_msg, context) ==
    [user_message |-> user_msg, bot_response |-> bot_msg, context |-> context]

\* DataManager.add_chat_message: the file it leaves (unchanged when the read
\* raises).
add_chat_message(db, user_msg, bot_msg, context) ==
    LET hist == get_chat_history(db, HistoryCap)
    IN  IF hist.raised THEN db
        ELSE File(Append(hist.value, ChatEntry(user_msg, bot_msg, context)))

----------------------------------------------------------------------------
\* The state in which nothing has been called yet.

NoRet == [op |-> "none", raised |-> FALSE, arg |-> 0,
          submitted |-> <<>>, value |-> <<>>]
NoDash == [rendered |-> FALSE, failure |-> "none", weather |-> NoWeather,
           cards |-> <<>>]
NoRule == [called |-> FALSE, needs_water |-> FALSE,
           interval |-> Interval(1), last_watered |-> None,
           weather |-> NoWeather]

StoreIdle ==
    /\ plants_db = NoFile
    /\ chat_db = NoFile
    /\ profile_db = NoFile
    /\ ret = NoRet
    /\ appended = 0

AppIdle ==
    /\ weather_key = FALSE
    /\ session = <<>>
    /\ page = "Welcome"
    /\ dash = NoDash

----------------------------------------------------------------------------
\* SpecRule: PlantService.calculate_watering_schedule on its own.  The
\* arguments and the clock reading are drawn at Init; the call is the step.

NowValues == (MaxNow - TicksPerDay + 1)..MaxNow

InitRule ==
    /\ now \in NowValues
    /\ rule \in [called : {FALSE}, needs_water : {FALSE},
                 interval : Intervals, last_watered : LastWateredValues,
                 weather : WeatherValues]
    /\ StoreIdle
    /\ AppIdle

CalculateWateringSchedule ==
    /\ ~rule.called
    /\ rule' = [rule EXCEPT
                  !.called = TRUE,
                  !.needs_water =
                      calculate_watering_schedule("plant", rule.interval,
                          rule.last_watered, rule.weather, <<>>).needs_water]
    /\ UNCHANGED <<now, plants_db, chat_db, profile_db, ret, appended,
                   weather_key, session, page, dash>>

NextRule == CalculateWateringSchedule

SpecRule == InitRule /\ [][NextRule]_vars

----------------------------------------------------------------------------
\* Claims about the watering rule (checked under SpecRule).

\* A description that contains "rain" in some mix of upper and lower case.
RainLetters == <<{"r", "R"}, {"a", "A"}, {"i", "I"}, {"n", "N"}>>

SaysRain(d) ==
    \E i \in 0..(Len(d) - 4) : \A k \in 1..4 : d[i + k] \in RainLetters[k]

\* The weather is a reading whose description says rain.
RainyWeather(weather) ==
    /\ ~weather.isNone
    /\ "description" \in weather.keys
    /\ SaysRain(weather.description)

\* C1: whatever the interval and the last_watered value (absent, well-formed
\* of any age, malformed), a weather reading whose description contains
\* "rain" in any letter case makes calculate_watering_schedule return
\* needs_water = false.
C1_RainForcesNoWater ==
    rule.called /\ RainyWeather(rule.weather) => rule.needs_water = FALSE

\* C1's case: a malformed last_watered (which alone means "needs water") and
\* the description "Rain".
C1_Witness ==
    /\ rule.called
    /\ rule.weather = Reading(FullKeys, <<"R", "a", "i", "n">>)
    /\ rule.last_watered \in MalformedTimestamps
    /\ rule.needs_water = FALSE

\* C2: for an interval I >= 1 and a well-formed last_watered (the string
\* isoformat writes for a time t), with no weather or a description without
\* "rain", needs_water is true exactly when at least I whole days lie between
\* last_watered and now.
C2_IntervalRule ==
    \A t \in 0..MaxNow :
        /\ rule.called
        /\ rule.interval.numeric /\ rule.interval.value >= 1
        /\ rule.last_watered = isoformat(t)
        /\ ~RainyWeather(rule.weather)
        => (rule.needs_water <=> now - t >= rule.interval.value * TicksPerDay)

\* C2's case: watered exactly two days ago, interval two days: due.
C2_Witness ==
    /\ rule.called
    /\ rule.interval = Interval(2)
    /\ rule.last_watered = isoformat(now - 2 * TicksPerDay)
    /\ rule.weather = NoWeather
    /\ rule.needs_water = TRUE

\* C3 as stated: for every interval I >= 1 and last_watered = None the call
\* returns needs_water = true (whatever the weather).
C3_AsStated ==
    /\ rule.called
    /\ rule.interval.numeric /\ rule.interval.value >= 1
    /\ rule.last_watered = None
    => rule.needs_water = TRUE

\* C3 (amended): for every interval I >= 1 and last_watered = None the call
\* returns needs_water = true when the weather is absent or its description
\* does not contain "rain".
C3_NeverWateredNeedsWater ==
    /\ rule.called
    /\ rule.interval.numeric /\ rule.interval.value >= 1
    /\ rule.last_watered = None
    /\ ~RainyWeather(rule.weather)
    => rule.needs_water = TRUE

\* C3's case: never watered, a dry description.
C3_Witness ==
    /\ rule.called
    /\ rule.interval = Interval(MaxInterval)
    /\ rule.last_watered = None
    /\ rule.weather = Reading(FullKeys, <<"a", "i", "r">>)
    /\ rule.needs_water = TRUE

----------------------------------------------------------------------------
\* The record store's operations as steps.  ret keeps what the last call was
\* given and what it gave back.

Call(op, arg, submitted, result) ==
    [op |-> op, raised |-> result.raised, arg |-> arg,
     submitted |-> submitted, value |-> result.value]

\* What the Add Plant form submits (line 298): last_watered is None.
PlantForm(name, placement, sun, interval_days) ==
    [name |-> name, placement |-> placement, sun_preference |-> sun,
     watering_interval_days |-> interval_days, last_watered |-> None]
PlantForms ==
    {PlantForm("Aloe", "Indoor", "Shade", MaxInterval),
     PlantForm("Basil", "Outdoor", "Full Sun", 1)}

\* Every id the clock can have produced.
Ids == 0..(MaxTime \div TicksPerSec)

\* The clock moves forward.
Tick ==
    /\ now < MaxTime
    /\ now' = now + 1
    /\ UNCHANGED <<plants_db, chat_db, profile_db, ret, appended, rule,
                   weather_key, session, page, dash>>

GetAllPlants ==
    /\ ret' = Call("get_all_plants", 0, <<>>,
                   Returned(get_all_plants(plants_db)))
    /\ UNCHANGED <<now, plants_db, chat_db, profile_db, appended, rule,
                   weather_key, session, page, dash>>

AddPlant(plant_data) ==
    /\ Len(get_all_plants(plants_db)) < MaxPlants
    /\ plants_db' = add_plant(plants_db, plant_data)
    /\ ret' = Call("add_plant", new_id, <<plant_data>>,
                   Returned(<<with_id(plant_data, new_id)>>))
    /\ UNCHANGED <<now, chat_db, profile_db, appended, rule,
                   weather_key, session, page, dash>>

DeletePlant(plant_id) ==
    /\ plants_db' = delete_plant(plants_db, plant_id)
    /\ ret' = Call("delete_plant", plant_id, <<>>, Returned(<<>>))
    /\ UNCHANGED <<now, chat_db, profile_db, appended, rule,
                   weather_key, session, page, dash>>

MarkWatered(plant_id) ==
    /\ plants_db' = mark_watered(plants_db, plant_id)
    /\ ret' = Call("mark_watered", plant_id, <<>>, Returned(<<>>))
    /\ UNCHANGED <<now, chat_db, profile_db, appended, rule,
                   weather_key, session, page, dash>>

\* SpecStore: the plant collection under add, delete, mark-watered and list
\* calls, with a clock that never goes back.
InitStore ==
    /\ now = 0
    /\ rule = NoRule
    /\ StoreIdle
    /\ AppIdle

NextStore ==
    \/ Tick
    \/ GetAllPlants
    \/ \E plant_data \in PlantForms : AddPlant(plant_data)
    \/ \E plant_id \in Ids : DeletePlant(plant_id)
    \/ \E plant_id \in Ids : MarkWatered(plant_id)

SpecStore == InitStore /\ [][NextStore]_vars

----------------------------------------------------------------------------
\* Claims about the plant collection (checked under SpecStore).

Stored == get_all_plants(plants_db)

CarriesFields(p, plant_data) ==
    /\ p.name = plant_data.name
    /\ p.placement = plant_data.placement
    /\ p.sun_preference = plant_data.sun_preference
    /\ p.watering_interval_days = plant_data.watering_interval_days
    /\ p.last_watered = plant_data.last_watered

\* C6: after add_plant(fields) the listing holds a record with all submitted
\* fields and an id no other stored plant has; after delete_plant(id) the
\* listing holds no record with that id and every other plant that was stored
\* is still stored (the call removes one record at most).
C6_RoundTrip ==
    [][/\ \A plant_data \in PlantForms :
            AddPlant(plant_data) =>
                \E i \in 1..Len(Stored') :
                    /\ CarriesFields(Stored'[i], plant_data)
                    /\ \A j \in 1..Len(Stored') :
                           j # i => Stored'[j].id # Stored'[i].id
       /\ \A plant_id \in Ids :
            DeletePlant(plant_id) =>
                /\ \A i \in 1..Len(Stored') : Stored'[i].id # plant_id
                /\ Len(Stored') >= Len(Stored) - 1
      ]_vars

\* The last_watered values, in stored order, of the plants whose id is k.
WateredOf(plants, k) ==
    LET has_id(p) == p.id = k
        sel == SelectSeq(plants, has_id)
    IN  [i \in 1..Len(sel) |-> sel[i].last_watered]

IsSet(last_watered) == ~last_watered.isNull

\* The time a stored last_watered string stands for.
WateredAt(last_watered) == fromisoformat(last_watered.text).t

\* C8: in every step (add_plant, mark_watered, delete_plant, a clock tick) a
\* stored plant's last_watered, once set, stays set and does not move to an
\* earlier time, and mark_watered does not raise.  Plants are followed by id
\* and stored order; an id whose plants were all deleted starts afresh.
C8_LastWateredMonotone ==
    [][/\ \A k \in Ids :
            LET before == WateredOf(Stored, k)
                after == WateredOf(Stored', k)
            IN  \/ after = <<>>
                \/ /\ Len(after) >= Len(before)
                   /\ \A i \in 1..Len(before) :
                          IsSet(before[i]) =>
                              /\ IsSet(after[i])
                              /\ fromisoformat(after[i].text).ok
                              /\ WateredAt(after[i]) >= WateredAt(before[i])
       /\ \A k \in Ids :
            MarkWatered(k) =>
                /\ ~ret'.raised
                /\ \A i \in 1..Len(Stored') :
                       Stored'[i].id = k => WateredAt(Stored'[i].last_watered) = now
      ]_vars

\* C8's case: a plant added in second 0 has just been marked watered at the
\* last clock reading.
C8_Witness ==
    /\ ret.op = "mark_watered"
    /\ now = MaxTime
    /\ \E i \in 1..Len(Stored) :
           /\ Stored[i].id = ret.arg
           /\ Stored[i].id = 0
           /\ Stored[i].last_watered = isoformat(MaxTime)

----------------------------------------------------------------------------
\* The chat history.  The n-th message appended carries the number n as its
\* user_message, so that a stored entry tells when it was appended.

DefaultLimit == 10
Limits == {0, 1, DefaultLimit, HistoryCap}

GetChatHistory(limit) ==
    /\ ret' = Call("get_chat_history", limit, <<>>,
                   get_chat_history(chat_db, limit))
    /\ UNCHANGED <<now, plants_db, chat_db, profile_db, appended, rule,
                   weather_key, session, page, dash>>

AddChatMessage(max_appends) ==
    /\ appended < max_appends
    /\ chat_db' = add_chat_message(chat_db, appended + 1, "answer", "context")
    /\ appended' = appended + 1
    /\ ret' = Call("add_chat_message", appended + 1, <<>>,
                   IF get_chat_history(chat_db, HistoryCap).raised
                   THEN Raised ELSE Returned(<<>>))
    /\ UNCHANGED <<now, plants_db, profile_db, rule,
                   weather_key, session, page, dash>>

\* SpecChat: appends and retrievals, starting from a missing or an empty
\* history file.
InitChat ==
    /\ now = 0
    /\ rule = NoRule
    /\ plants_db = NoFile
    /\ chat_db \in {NoFile, File(<<>>)}
    /\ profile_db = NoFile
    /\ ret = NoRet
    /\ appended = 0
    /\ AppIdle

NextChat ==
    \/ AddChatMessage(MaxAppends)
    \/ \E limit \in Limits : GetChatHistory(limit)

SpecChat == InitChat /\ [][NextChat]_vars

\* The m most recently appended of the stored entries, in append order.
MostRecent(hist, m) == SubSeq(hist, Len(hist) - m + 1, Len(hist))

Min(a, b) == IF a <= b THEN a ELSE b

\* C5: after any number of add_chat_message calls the stored history holds at
\* most 100 entries, and they are the most recently appended ones in append
\* order; a retrieval returns at most 100 entries.
C5_StoredAtMostCap ==
    LET hist == chat_db.data
    IN  /\ Len(hist) <= 100
        /\ Len(hist) = Min(appended, 100)
        /\ \A i \in 1..Len(hist) :
               hist[i].user_message = appended - Len(hist) + i
        /\ ret.op = "get_chat_history" => Len(ret.value) <= 100

\* C9: get_chat_history(limit), limit >= 0, returns exactly the
\* min(limit, stored length) most recently appended entries, in append order.
C9_ReturnsMostRecent ==
    ret.op = "get_chat_history" /\ ~ret.raised /\ ret.arg >= 0 =>
        ret.value = MostRecent(chat_db.data, Min(ret.arg, Len(chat_db.data)))

----------------------------------------------------------------------------
\* SpecFault: the three files when a write can be cut short (the file is left
\* holding text json.load rejects) and a file can be removed.

Files == {"plants", "chat", "profile"}

Profiles == {[name |-> "Ada", location |-> DEFAULT_CITY],
             [name |-> "", location |-> "Lahore"]}

\* A crash in the middle of json.dump: open(..., 'w') has truncated the file.
TruncateFile(f) ==
    /\ \/ f = "plants" /\ plants_db.exists /\ plants_db' = Garbage
                       /\ UNCHANGED <<chat_db, profile_db>>
       \/ f = "chat" /\ chat_db.exists /\ chat_db' = Garbage
                     /\ UNCHANGED <<plants_db, profile_db>>
       \/ f = "profile" /\ profile_db.exists /\ profile_db' = Garbage
                        /\ UNCHANGED <<plants_db, chat_db>>
    /\ ret' = NoRet
    /\ UNCHANGED <<now, appended, rule, weather_key, session, page, dash>>

RemoveFile(f) ==
    /\ \/ f = "plants" /\ plants_db.exists /\ plants_db' = NoFile
                       /\ UNCHANGED <<chat_db, profile_db>>
       \/ f = "chat" /\ chat_db.exists /\ chat_db' = NoFile
                     /\ UNCHANGED <<plants_db, profile_db>>
       \/ f = "profile" /\ profile_db.exists /\ profile_db' = NoFile
                        /\ UNCHANGED <<plants_db, chat_db>>
    /\ ret' = NoRet
    /\ UNCHANGED <<now, appended, rule, weather_key, session, page, dash>>

GetUserProfile ==
    /\ ret' = Call("get_user_profile", 0, <<>>, get_user_profile(profile_db))
    /\ UNCHANGED <<now, plants_db, chat_db, profile_db, appended, rule,
                   weather_key, session, page, dash>>

SaveUserProfile(data) ==
    /\ profile_db' = save_user_profile(data)
    /\ ret' = Call("save_user_profile", 0, <<>>, Returned(<<>>))
    /\ UNCHANGED <<now, plants_db, chat_db, appended, rule,
                   weather_key, session, page, dash>>

InitFault ==
    /\ now = 0
    /\ rule = NoRule
    /\ StoreIdle
    /\ AppIdle

NextFault ==
    \/ \E f \in Files : TruncateFile(f)
    \/ \E f \in Files : RemoveFile(f)
    \/ GetAllPlants
    \/ GetChatHistory(DefaultLimit)
    \/ GetUserProfile
    \/ \E plant_data \in PlantForms : AddPlant(plant_data)
    \/ AddChatMessage(MaxFaultLen)
    \/ \E data \in Profiles : SaveUserProfile(data)

SpecFault == InitFault /\ [][NextFault]_vars

Bad(db) == ~db.exists \/ ~db.valid

\* C7: with a missing, unreadable or malformed backing file, get_all_plants
\* returns the empty list, get_chat_history returns the empty list and
\* get_user_profile returns the default profile; none of them raises.
C7_RetrievalNeverFails ==
    /\ ret.op = "get_all_plants" /\ Bad(plants_db) =>
           ~ret.raised /\ ret.value = <<>>
    /\ ret.op = "get_chat_history" /\ Bad(chat_db) =>
           ~ret.raised /\ ret.value = <<>>
    /\ ret.op = "get_user_profile" /\ Bad(profile_db) =>
           ~ret.raised /\ ret.value = <<DefaultProfile>>

----------------------------------------------------------------------------
\* The weather lookup.  A response is what requests.get(url).json() comes to:
\* a payload with cod = 200 and the expected keys ("ok"), a payload with
\* another cod ("non_success"), a payload with cod = 200 that lacks a key
\* ("malformed"), or an exception ("network_error").

NoKeyReading ==
    Reading({"temperature", "description"}, <<"N", "o", " ", "K", "e", "y">>)

Failures == {"non_success", "malformed", "network_error"}

Descriptions == {Rain, <<"R", "a", "i", "n">>, <<"a", "i", "r">>}

Responses ==
    {[kind |-> "ok", description |-> d] : d \in Descriptions}
        \cup {[kind |-> k, description |-> <<>>] : k \in Failures}

\* WeatherService.get_current_weather
get_current_weather(city, response) ==
    IF ~weather_key THEN NoKeyReading
    ELSE IF response.kind = "network_error" THEN NoWeather   \* except
    ELSE IF response.kind = "non_success" THEN NoWeather     \* cod != 200
    ELSE IF response.kind = "malformed" THEN NoWeather       \* KeyError, except
    ELSE Reading(FullKeys, response.description)

\* How the lookup failed, if it did.
FailureOf(response) ==
    IF ~weather_key THEN "no_key"
    ELSE IF response.kind = "ok" THEN "none"
    ELSE response.kind

----------------------------------------------------------------------------
\* The pages.  Every user action reruns the script: the session state keeps
\* its 'plants' entry (line 192 fills it only when it is absent), the page
\* selected in the sidebar is rendered.

Pages == {"Welcome", "User Profile", "Location", "Dashboard", "Add Plant",
          "AI Botanist"}

\* The Dashboard page, lines 233-265: the lookup and one card per cached plant.
RenderDashboard(plants, response) ==
    LET weather == get_current_weather(DEFAULT_CITY, response)
    IN  [rendered |-> TRUE,
         failure |-> FailureOf(response),
         weather |-> weather,
         cards |-> [i \in 1..Len(plants) |->
                      calculate_watering_schedule(plants[i].name,
                          Interval(plants[i].watering_interval_days),
                          plants[i].last_watered, weather, <<>>).needs_water]]

Render(p, plants, response) ==
    IF p = "Dashboard" THEN RenderDashboard(plants, response) ELSE NoDash

\* The sidebar radio: select a page (or any rerun of the page shown).
Navigate(p) ==
    /\ page' = p
    /\ \E response \in Responses : dash' = Render(p, session, response)
    /\ UNCHANGED <<now, plants_db, chat_db, profile_db, ret, appended, rule,
                   weather_key, session>>

\* The Water button of card i, lines 267-270.
ClickWater(i) ==
    /\ page = "Dashboard"
    /\ i \in 1..Len(session)
    /\ plants_db' = mark_watered(plants_db, session[i].id)
    /\ session' = get_all_plants(plants_db')
    /\ \E response \in Responses :                         \* st.rerun()
           dash' = RenderDashboard(session', response)
    /\ UNCHANGED <<now, chat_db, profile_db, ret, appended, rule,
                   weather_key, page>>

\* The Delete button of card i, lines 271-274.
ClickDelete(i) ==
    /\ page = "Dashboard"
    /\ i \in 1..Len(session)
    /\ plants_db' = delete_plant(plants_db, session[i].id)
    /\ session' = get_all_plants(plants_db')
    /\ \E response \in Responses :                         \* st.rerun()
           dash' = RenderDashboard(session', response)
    /\ UNCHANGED <<now, chat_db, profile_db, ret, appended, rule,
                   weather_key, page>>

\* The Save Plant button of the Add Plant form, lines 297-302.
SavePlant(plant_data) ==
    /\ page = "Add Plant"
    /\ Len(get_all_plants(plants_db)) < MaxPlants
    /\ plants_db' = add_plant(plants_db, plant_data)
    /\ UNCHANGED <<now, chat_db, profile_db, ret, appended, rule,
                   weather_key, session, page, dash>>

\* A new browser session (the app is opened or reloaded): its first script
\* run fills the empty session state from the store, line 192, and shows the
\* Welcome page.
NewSession ==
    /\ session' = get_all_plants(plants_db)
    /\ page' = "Welcome"
    /\ dash' = NoDash
    /\ UNCHANGED <<now, plants_db, chat_db, profile_db, ret, appended, rule,
                   weather_key>>

\* SpecApp: browser sessions, from the first script run of the first one (the
\* Welcome page, no plants file yet) on.
InitApp ==
    /\ now = 0
    /\ rule = NoRule
    /\ StoreIdle
    /\ weather_key \in BOOLEAN
    /\ session = get_all_plants(plants_db)
    /\ page = "Welcome"
    /\ dash = NoDash

NextApp ==
    \/ Tick
    \/ NewSession
    \/ \E p \in Pages : Navigate(p)
    \/ \E i \in 1..MaxPlants : ClickWater(i)
    \/ \E i \in 1..MaxPlants : ClickDelete(i)
    \/ \E plant_data \in PlantForms : SavePlant(plant_data)

SpecApp == InitApp /\ [][NextApp]_vars

\* C4: get_current_weather returns None on every failure (missing weather
\* credential, non-success response, malformed payload, network error), so
\* that without a weather key the Dashboard computes every card with
\* weather = None.
C4_FailureGivesNone ==
    dash.rendered /\ dash.failure # "none" =>
        /\ dash.weather = NoWeather
        /\ Len(dash.cards) = Len(session)

\* C10: whatever the user has done in the session (Save Plant, Water, Delete,
\* navigation), the plant list the Dashboard renders is the plant collection
\* the store holds.
C10_DashboardShowsStored ==
    dash.rendered =>
        /\ session = get_all_plants(plants_db)
        /\ Len(dash.cards) = Len(get_all_plants(plants_db))

====
